---- MODULE Spec2Model ----
(***************************************************************************)
(* A model of the export orchestrator of scripts/duckdb_export.py:         *)
(* DuckDBExporter.run and the methods it calls.  Texts are sequences of    *)
(* characters (one-character strings), so that quoting, escaping and path  *)
(* construction are computed as the code computes them.                    *)
(***************************************************************************)
EXTENDS Integers, Sequences, FiniteSets, TLC

(* ------------------------------------------------------------------ *)
(* Bounds of the model                                                 *)
(* ------------------------------------------------------------------ *)

\* longest metadata['tables'] list of a run
MaxTables == 2
\* most views, and most routines, in the metadata of a run
MaxExtras == 1
\* most indexes of a table descriptor handed to get_table_sort_order
MaxIndexes == 2

(* ------------------------------------------------------------------ *)
(* Texts                                                               *)
(* ------------------------------------------------------------------ *)

\* the single quote of an SQL string literal
SQ == "'"
\* the double quote get_table_sort_order puts around a column
DQ == "\""

RECURSIVE JoinText(_, _)
\* sep.join(parts) for a sequence of texts
JoinText(parts, sep) ==
    IF Len(parts) = 0 THEN <<>>
    ELSE IF Len(parts) = 1 THEN parts[1]
    ELSE parts[1] \o sep \o JoinText(Tail(parts), sep)

\* f'"{col}"'
QuoteCol(col) == <<DQ>> \o col \o <<DQ>>

\* ', '.join([f'"{col}"' for col in cols])
QuotedColumnList(cols) ==
    JoinText([i \in 1..Len(cols) |-> QuoteCol(cols[i])], <<",", " ">>)

RECURSIVE ReplaceChar(_, _, _)
\* text.replace(ch, by) for a one-character ch and a text by
ReplaceChar(text, ch, by) ==
    IF Len(text) = 0 THEN <<>>
    ELSE (IF Head(text) = ch THEN by ELSE <<Head(text)>>)
         \o ReplaceChar(Tail(text), ch, by)

\* value.replace("'", "''")
EscapeQuotes(text) == ReplaceChar(text, SQ, <<SQ, SQ>>)

(* ------------------------------------------------------------------ *)
(* Table descriptors, as extract_complete_metadata builds them         *)
(* ------------------------------------------------------------------ *)

\* an optional value is a sequence of length 0 (None) or 1
Truthy(opt) == Len(opt) > 0

\* the column lists of a primary key
KeyColumnChoices == { <<<<"a">>>>, <<<<"b">>, <<"a">>>>, <<<<"c">>>> }

\* the column lists of an index: those of a key, the empty list the Oracle
\* adapter emits for an index with no column rows, and an entry with the
\* direction the SQL Server adapter appends
IndexColumnChoices == KeyColumnChoices \cup { <<>>, <<<<"a", " ", "ASC">>>> }

\* the names of the columns of a table, in ordinal order
ColumnListChoices == { <<>>, <<<<"a">>>>, <<<<"c">>, <<"b">>, <<"a">>>> }

IndexChoices ==
    [type : {"CLUSTERED", "NONCLUSTERED"}, is_unique : BOOLEAN,
     columns : IndexColumnChoices]

RECURSIVE SeqsUpTo(_, _)
\* the sequences over S of length at most n
SeqsUpTo(S, n) ==
    IF n = 0 THEN { <<>> }
    ELSE LET shorter == SeqsUpTo(S, n - 1)
         IN  shorter \cup { Append(s, x) : s \in { t \in shorter : Len(t) = n - 1 }, x \in S }

\* the descriptors get_table_sort_order is checked on
TableDescriptors ==
    { [schema |-> <<"s">>, name |-> <<"t">>, full_name |-> <<"s", ".", "t">>,
       columns |-> [i \in 1..Len(cl) |-> [name |-> cl[i]]],
       primary_key |-> pk, indexes |-> ix] :
        cl \in ColumnListChoices,
        pk \in { <<>> } \cup { <<[columns |-> kc]>> : kc \in KeyColumnChoices },
        ix \in SeqsUpTo(IndexChoices, MaxIndexes) }

(* ------------------------------------------------------------------ *)
(* get_table_sort_order                                                *)
(* ------------------------------------------------------------------ *)

\* the tests of the two index loops, and the indexes each accepts, in list order
IsClustered(index) == index.type = "CLUSTERED"

ClusteredIndexes(indexes) == SelectSeq(indexes, IsClustered)

\* IsUnique with the test lost: any index passes for a unique one
IsUnique_AnyIndex(index) == TRUE

IsUnique(index) == index.is_unique

UniqueIndexes(indexes) == SelectSeq(indexes, IsUnique)

\* SortRule with the clustered index looked for before the primary key
SortRule_ClusteredFirst(table_info) ==
    IF Len(SelectSeq(table_info.indexes, LAMBDA x : x.type = "CLUSTERED")) > 0 THEN "clustered"
    ELSE IF Truthy(table_info.primary_key) THEN "primary_key"
    ELSE IF Len(SelectSeq(table_info.indexes, LAMBDA x : x.is_unique)) > 0 THEN "unique"
    ELSE IF Len(table_info.columns) > 0 THEN "first_column"
    ELSE "none"

\* SortRule with the two index loops in the other order
SortRule_UniqueFirst(table_info) ==
    IF Truthy(table_info.primary_key) THEN "primary_key"
    ELSE IF Len(SelectSeq(table_info.indexes, LAMBDA x : x.is_unique)) > 0 THEN "unique"
    ELSE IF Len(SelectSeq(table_info.indexes, LAMBDA x : x.type = "CLUSTERED")) > 0 THEN "clustered"
    ELSE IF Len(table_info.columns) > 0 THEN "first_column"
    ELSE "none"

\* SortRule with the fallback to the first column forgotten
SortRule_NoColumnFallback(table_info) ==
    IF Truthy(table_info.primary_key) THEN "primary_key"
    ELSE IF Len(SelectSeq(table_info.indexes, LAMBDA x : x.type = "CLUSTERED")) > 0 THEN "clustered"
    ELSE IF Len(SelectSeq(table_info.indexes, LAMBDA x : x.is_unique)) > 0 THEN "unique"
    ELSE "none"

\* the rule of get_table_sort_order that fires for a descriptor
SortRule(table_info) ==
    IF Truthy(table_info.primary_key) THEN "primary_key"
    ELSE IF Len(ClusteredIndexes(table_info.indexes)) > 0 THEN "clustered"
    ELSE IF Len(UniqueIndexes(table_info.indexes)) > 0 THEN "unique"
    ELSE IF Len(table_info.columns) > 0 THEN "first_column"
    ELSE "none"

get_table_sort_order(table_info) ==
    LET rule == SortRule(table_info)
    IN  CASE rule = "primary_key" ->
               QuotedColumnList(table_info.primary_key[1].columns)
          [] rule = "clustered" ->
               QuotedColumnList(ClusteredIndexes(table_info.indexes)[1].columns)
          [] rule = "unique" ->
               QuotedColumnList(UniqueIndexes(table_info.indexes)[1].columns)
          [] rule = "first_column" -> QuoteCol(table_info.columns[1].name)
          [] OTHER -> <<>>

(* ------------------------------------------------------------------ *)
(* SQL string literals, as the storage engine reads them               *)
(* ------------------------------------------------------------------ *)

\* f"'{value}'"
Lit(value) == <<SQ>> \o value \o <<SQ>>

\* the literals of a statement, in order, separated by ", "
LiteralList(values) ==
    JoinText([i \in 1..Len(values) |-> Lit(values[i])], <<",", " ">>)

RECURSIVE ScanLiteralList(_, _, _, _, _)
\* reads a ", "-separated list of literals from position i on; mode is
\* "open" before a literal, "in" inside one (cur is what was read of it)
\* and "after" behind its closing quote; inside a literal '' is one quote
\* and a single ' ends the literal
ScanLiteralList(text, i, mode, cur, vals) ==
    IF i > Len(text) THEN [ok |-> mode = "after", values |-> vals]
    ELSE IF mode = "open"
         THEN IF text[i] = SQ
              THEN ScanLiteralList(text, i + 1, "in", <<>>, vals)
              ELSE [ok |-> FALSE, values |-> vals]
    ELSE IF mode = "in"
         THEN IF text[i] # SQ
              THEN ScanLiteralList(text, i + 1, "in", Append(cur, text[i]), vals)
              ELSE IF i < Len(text) /\ text[i + 1] = SQ
                   THEN ScanLiteralList(text, i + 2, "in", Append(cur, SQ), vals)
                   ELSE ScanLiteralList(text, i + 1, "after", <<>>, Append(vals, cur))
    ELSE IF text[i] = "," /\ i < Len(text) /\ text[i + 1] = " "
         THEN ScanLiteralList(text, i + 2, "open", <<>>, vals)
         ELSE [ok |-> FALSE, values |-> vals]

\* the values of a ", "-separated list of literals, or ok = FALSE when
\* the text is not such a list (the engine's syntax error)
ParseLiterals(text) == ScanLiteralList(text, 1, "open", <<>>, <<>>)

(* ------------------------------------------------------------------ *)
(* Configuration and metadata of a run                                 *)
(* ------------------------------------------------------------------ *)

\* config['database_type']: the three engines the exporter knows, and one
\* it does not
DbTypes == {"sqlserver", "postgresql", "oracle", "mysql"}

\* the engines connect_to_source has an extractor for
SupportedDbTypes == {"sqlserver", "postgresql", "oracle"}

\* config['s3_bucket_path'].rstrip('/')
s3_bucket_path == <<"s3://", "b">>

\* the tables a run can discover: sales.orders with a primary key,
\* sales.legacy with neither key nor index nor column, and a table with a
\* clustered index
Catalogue ==
    << [schema |-> <<"s">>, name |-> <<"o">>, full_name |-> <<"s", ".", "o">>,
        columns |-> <<[name |-> <<"a">>], [name |-> <<"b">>]>>,
        primary_key |-> <<[columns |-> <<<<"a">>>>]>>, indexes |-> <<>>],
       [schema |-> <<"s">>, name |-> <<"l">>, full_name |-> <<"s", ".", "l">>,
        columns |-> <<>>, primary_key |-> <<>>, indexes |-> <<>>],
       [schema |-> <<"s">>, name |-> <<"c">>, full_name |-> <<"s", ".", "c">>,
        columns |-> <<[name |-> <<"a">>], [name |-> <<"b">>]>>,
        primary_key |-> <<>>,
        indexes |-> <<[type |-> "CLUSTERED", is_unique |-> FALSE,
                       columns |-> <<<<"b">>>>]>>] >>

\* the table lists extract_complete_metadata can return: full_name is
\* unique within a list
TableLists ==
    { [i \in 1..Len(ix) |-> Catalogue[ix[i]]] :
        ix \in { s \in SeqsUpTo(1..Len(Catalogue), MaxTables) :
                   \A i, j \in 1..Len(s) : i # j => s[i] # s[j] } }

\* a view or routine: its definition is a text, or None (sys.sql_modules
\* holds NULL for an encrypted module)
ModuleChoices ==
    { [schema |-> <<"s">>, name |-> <<"v">>, definition |-> <<>>],
      [schema |-> <<"s">>, name |-> <<"v">>, definition |-> << <<"d", SQ>> >>] }

Metadatas ==
    [tables : TableLists,
     views : SeqsUpTo(ModuleChoices, MaxExtras),
     routines : SeqsUpTo(ModuleChoices, MaxExtras)]

\* the metadata before extract_metadata has returned one
NoMetadata == [tables |-> <<>>, views |-> <<>>, routines |-> <<>>]

\* str(e) of the errors a transfer statement raises
ErrorTexts == { <<"e">>, <<"i", SQ, "s">> }

(* ------------------------------------------------------------------ *)
(* The transfer statement of export_table_data                         *)
(* ------------------------------------------------------------------ *)

\* the connection values of the configuration; the password holds a quote
server == <<"h">>
port == <<"1433">>
database == <<"d">>
auth_type == "sql"
username == <<"u">>
password == <<"p", SQ, "w">>

\* odbc_conn, the connection string for the nanodbc extension
OdbcConn(dbt) ==
    IF dbt = "sqlserver"
    THEN IF auth_type = "windows"
         THEN <<"Driver={ODBC Driver 17 for SQL Server};", "Server=">> \o server \o <<",">> \o port
              \o <<";", "Database=">> \o database \o <<";", "Trusted_Connection=yes;">>
         ELSE <<"Driver={ODBC Driver 17 for SQL Server};", "Server=">> \o server \o <<",">> \o port
              \o <<";", "Database=">> \o database \o <<";", "Uid=">> \o username
              \o <<";", "Pwd=">> \o password \o <<";">>
    ELSE <<"Driver={Oracle in OraClient19Home1};", "DBQ=">> \o server \o <<":">> \o port
         \o <<"/">> \o database \o <<";", "Uid=">> \o username \o <<";", "Pwd=">> \o password \o <<";">>

\* pg_conn, the connection string of postgres_scan
PgConn ==
    <<"host=">> \o server \o <<" port=">> \o port \o <<" dbname=">> \o database
    \o <<" user=">> \o username \o <<" password=">> \o password

\* f" ORDER BY {sort_order}"
OrderBy(sort) == <<" ORDER BY ">> \o sort

\* TableQuery with `if sort_order:` forgotten
TableQuery_AlwaysOrderBy(dbt, schema, table, sort) ==
    (IF dbt = "sqlserver"
     THEN <<"SELECT * FROM ", "[">> \o schema \o <<"]", ".", "[">> \o table \o <<"]">>
     ELSE <<"SELECT * FROM ", DQ>> \o schema \o <<DQ, ".", DQ>> \o table \o <<DQ>>)
    \o OrderBy(sort)


\* table_query: the query the ODBC source runs, with the sort order in it
TableQuery(dbt, schema, table, sort) ==
    (IF dbt = "sqlserver"
     THEN <<"SELECT * FROM ", "[">> \o schema \o <<"]", ".", "[">> \o table \o <<"]">>
     ELSE <<"SELECT * FROM ", DQ>> \o schema \o <<DQ, ".", DQ>> \o table \o <<DQ>>)
    \o (IF Len(sort) > 0 THEN OrderBy(sort) ELSE <<>>)

\* scan_function: odbc_query for SQL Server and Oracle, postgres_scan for
\* PostgreSQL
ScanFunction(dbt, schema, table, sort) ==
    IF dbt \in {"sqlserver", "oracle"}
    THEN <<"odbc_query(", "connection=">> \o Lit(EscapeQuotes(OdbcConn(dbt)))
         \o <<", ", "query=">> \o Lit(EscapeQuotes(TableQuery(dbt, schema, table, sort)))
         \o <<")">>
    ELSE <<"postgres_scan(">> \o Lit(EscapeQuotes(PgConn)) \o <<", ">>
         \o Lit(EscapeQuotes(schema)) \o <<", ">> \o Lit(EscapeQuotes(table)) \o <<")">>

\* ExportQuery with the ORDER BY around the scan for every database type
ExportQuery_OrderByAroundEveryScan(dbt, schema, table, sort, s3_path) ==
    <<"COPY (", "SELECT * FROM ">> \o ScanFunction(dbt, schema, table, sort)
    \o (IF Len(sort) > 0 THEN OrderBy(sort) ELSE <<>>)
    \o <<") TO ">> \o Lit(s3_path)
    \o <<" (FORMAT ">> \o Lit(<<"parquet">>) \o <<", COMPRESSION ">> \o Lit(<<"ZSTD">>)
    \o <<", ROW_GROUP_SIZE 100000);">>

\* export_query: the COPY statement handed to the storage engine; the
\* destination path goes into its literal as it is
ExportQuery(dbt, schema, table, sort, s3_path) ==
    <<"COPY (", "SELECT * FROM ">> \o ScanFunction(dbt, schema, table, sort)
    \o (IF dbt = "postgresql" /\ Len(sort) > 0 THEN OrderBy(sort) ELSE <<>>)
    \o <<") TO ">> \o Lit(s3_path)
    \o <<" (FORMAT ">> \o Lit(<<"parquet">>) \o <<", COMPRESSION ">> \o Lit(<<"ZSTD">>)
    \o <<", ROW_GROUP_SIZE 100000);">>

RECURSIVE ScanStatement(_, _, _, _, _)
\* reads a statement from position i on: inlit says whether i is inside a
\* string literal, cur is what was read of that literal, vals the literals
\* read before it
ScanStatement(text, i, inlit, cur, vals) ==
    IF i > Len(text) THEN [ok |-> ~inlit, values |-> vals]
    ELSE IF ~inlit
         THEN ScanStatement(text, i + 1, text[i] = SQ, <<>>, vals)
         ELSE IF text[i] # SQ
              THEN ScanStatement(text, i + 1, TRUE, Append(cur, text[i]), vals)
              ELSE IF i < Len(text) /\ text[i + 1] = SQ
                   THEN ScanStatement(text, i + 2, TRUE, Append(cur, SQ), vals)
                   ELSE ScanStatement(text, i + 1, FALSE, <<>>, Append(vals, cur))

\* the string literals of a statement as the engine reads them, in order;
\* ok is FALSE when a literal of the text does not end (a syntax error)
StatementLiterals(text) == ScanStatement(text, 1, FALSE, <<>>, <<>>)

(* ------------------------------------------------------------------ *)
(* State of a run                                                      *)
(* ------------------------------------------------------------------ *)

VARIABLES
    db_type,             \* self.db_type
    pc,                  \* the statement of run() that executes next
    duckdb_conn,         \* self.duckdb_conn: "None", "open" or "closed"
    metadata_extractor,  \* self.metadata_extractor: "None", "created", "connected", "closed"
    metadata,            \* the metadata extract_metadata works on
    save_idx,            \* the artifact extract_metadata saves next
    last_save,           \* what the latest _save_to_s3 call did
    idx,                 \* idx of export_all_tables: the table in hand
    sort_order,          \* sort_order of export_table_data
    table_s3_path,       \* table_s3_path of export_table_data
    log_id,              \* log_id of export_table_data: <<>> is None
    export_logs,         \* the rows of the export_logs table
    uuid_count,          \* how many ids uuid.uuid4() has handed out
    flush,               \* what _write_progress_to_s3 wrote, and where
    failure,             \* the exception that reached the handler of run()
    exit_code,           \* the status the process exits with: <<>> while it runs
    trace                \* the calls made so far, in order

vars ==
    << db_type, pc, duckdb_conn, metadata_extractor, metadata, save_idx,
       last_save, idx, sort_order, table_s3_path, log_id, export_logs,
       uuid_count, flush, failure, exit_code, trace >>

\* one call of the trace
Event(ev, table, ok, arg) == [ev |-> ev, table |-> table, ok |-> ok, arg |-> arg]

\* last_save before the first _save_to_s3 call
NothingSaved ==
    [kind |-> "none", place |-> "none", s3_path |-> <<>>, given |-> <<>>,
     path |-> <<>>, content |-> <<>>]

\* the state of a new DuckDBExporter with the given database type
Constructed(dbt) ==
    /\ db_type = dbt
    /\ pc = "initialize_duckdb"
    /\ duckdb_conn = "None"
    /\ metadata_extractor = "None"
    /\ metadata = NoMetadata
    /\ save_idx = 0
    /\ last_save = NothingSaved
    /\ idx = 0
    /\ sort_order = <<>>
    /\ table_s3_path = <<>>
    /\ log_id = <<>>
    /\ export_logs = <<>>
    /\ uuid_count = 0
    /\ flush = [place |-> "none", rows |-> <<>>]
    /\ failure = "none"
    /\ exit_code = <<>>
    /\ trace = <<>>

Init == \E dbt \in DbTypes : Constructed(dbt)

\* an exception leaves the try block of run(): the handler prints it and
\* calls sys.exit(1), which the finally clause precedes
Raise(cause) ==
    /\ failure' = cause
    /\ pc' = "finally"

(* ------------------------------------------------------------------ *)
(* run(): initialize, connect, extract metadata                        *)
(* ------------------------------------------------------------------ *)

\* Step 1: duckdb.connect raises, or a later statement does, or none
initialize_duckdb ==
    /\ pc = "initialize_duckdb"
    /\ \E outcome \in {"ok", "connect_error", "execute_error"} :
         /\ duckdb_conn' = IF outcome = "connect_error" THEN "None" ELSE "open"
         /\ IF outcome = "ok"
            THEN pc' = "connect_to_source" /\ failure' = failure
            ELSE Raise("initialize_duckdb")
    /\ UNCHANGED << db_type, metadata_extractor, metadata, save_idx, last_save,
                    idx, sort_order, table_s3_path, log_id, export_logs,
                    uuid_count, flush, exit_code, trace >>

\* Step 2: an unknown database type raises ValueError with no extractor
\* made; else the extractor is made and its connect() succeeds or raises
connect_to_source ==
    /\ pc = "connect_to_source"
    /\ IF db_type \notin SupportedDbTypes
       THEN /\ Raise("unsupported_db_type")
            /\ UNCHANGED metadata_extractor
       ELSE \E connected \in BOOLEAN :
              IF connected
              THEN /\ metadata_extractor' = "connected"
                   /\ pc' = "extract_metadata"
                   /\ failure' = failure
              ELSE /\ metadata_extractor' = "created"
                   /\ Raise("connect")
    /\ UNCHANGED << db_type, duckdb_conn, metadata, save_idx, last_save, idx,
                    sort_order, table_s3_path, log_id, export_logs, uuid_count,
                    flush, exit_code, trace >>

\* Step 3, first statement: extract_complete_metadata() returns a metadata
\* or raises
extract_complete_metadata ==
    /\ pc = "extract_metadata"
    /\ \/ /\ \E md \in Metadatas : metadata' = md
          /\ save_idx' = 1
          /\ pc' = "save_artifacts"
          /\ failure' = failure
       \/ /\ Raise("extract_complete_metadata")
          /\ UNCHANGED << metadata, save_idx >>
    /\ UNCHANGED << db_type, duckdb_conn, metadata_extractor, last_save, idx,
                    sort_order, table_s3_path, log_id, export_logs, uuid_count,
                    flush, exit_code, trace >>

\* metadata_path of extract_metadata
MetadataPath == s3_bucket_path \o <<"/metadata">>

\* datetime.now().strftime('%Y%m%d_%H%M%S')
Timestamp == <<"ts">>

\* the artifacts extract_metadata saves, in order: the metadata JSON, one
\* DDL per table, the views, the routines, each with its destination path;
\* content is <<>> for None
Artifacts(md) ==
    << [kind |-> "json",
        path |-> MetadataPath \o <<"/metadata_">> \o Timestamp \o <<".json">>,
        content |-> << <<"{", "}">> >>] >>
    \o [i \in 1..Len(md.tables) |->
          [kind |-> "table_ddl",
           path |-> MetadataPath \o <<"/tables/">> \o md.tables[i].schema \o <<"/">>
                    \o md.tables[i].name \o <<".sql">>,
           content |-> << <<"C", SQ>> >>]]
    \o [i \in 1..Len(md.views) |->
          [kind |-> "view",
           path |-> MetadataPath \o <<"/views/">> \o md.views[i].schema \o <<"/">>
                    \o md.views[i].name \o <<".sql">>,
           content |-> md.views[i].definition]]
    \o [i \in 1..Len(md.routines) |->
          [kind |-> "routine",
           path |-> MetadataPath \o <<"/procedures/">> \o md.routines[i].schema \o <<"/">>
                    \o md.routines[i].name \o <<".sql">>,
           content |-> md.routines[i].definition]]

\* the COPY statement of _save_to_s3: the content is escaped, the path
\* goes into its literal as it is
SaveStatement(s3_path, content) ==
    <<"COPY (", "SELECT ">> \o Lit(EscapeQuotes(content)) \o <<" AS content", ") TO ">>
    \o Lit(s3_path) \o <<" (FORMAT ">> \o Lit(<<"csv">>) \o <<", HEADER false);">>

\* s3_path.replace('s3://', 'local_export/')
LocalPath(s3_path) == ReplaceChar(s3_path, "s3://", <<"local_export/">>)

\* what one _save_to_s3 call can do: content None raises at
\* content.replace; else the remote write succeeds (on a statement the
\* engine can read), or fails and the local write succeeds, or both fail
\* and the local error propagates
SaveOutcomes(artifact) ==
    IF Truthy(artifact.content)
    THEN (IF StatementLiterals(SaveStatement(artifact.path, artifact.content[1])).ok
          THEN {"remote"} ELSE {})
         \cup {"local", "local_error"}
    ELSE {"content_error"}

\* what a _save_to_s3 call with that outcome wrote, and where: the engine
\* writes what it reads in the statement, the fallback writes the content
\* it was given to the local path
Saved(artifact, outcome) ==
    LET base == [kind |-> artifact.kind, place |-> outcome, s3_path |-> artifact.path,
                 given |-> artifact.content, path |-> <<>>, content |-> <<>>]
    IN  CASE outcome = "remote" ->
               LET read == StatementLiterals(SaveStatement(artifact.path, artifact.content[1])).values
               IN  [base EXCEPT !.path = read[2], !.content = <<read[1]>>]
          [] outcome = "local" ->
               [base EXCEPT !.path = LocalPath(artifact.path), !.content = artifact.content]
          [] outcome = "local_error" ->
               [base EXCEPT !.path = LocalPath(artifact.path)]
          [] OTHER -> base

\* Step 3, the saves: one _save_to_s3 call of extract_metadata; after the
\* last one extract_metadata returns the metadata to run()
save_artifact ==
    /\ pc = "save_artifacts"
    /\ LET artifact == Artifacts(metadata)[save_idx]
       IN  \E outcome \in SaveOutcomes(artifact) :
             /\ last_save' = Saved(artifact, outcome)
             /\ trace' = Append(trace, Event("save", save_idx, outcome \in {"remote", "local"}, <<artifact.kind>>))
             /\ CASE outcome = "content_error" ->
                       Raise("artifact_content") /\ UNCHANGED << save_idx, idx >>
                  [] outcome = "local_error" ->
                       Raise("local_fallback") /\ UNCHANGED << save_idx, idx >>
                  [] OTHER ->
                       /\ save_idx' = save_idx + 1
                       /\ failure' = failure
                       /\ idx' = idx
                       /\ pc' = IF save_idx = Len(Artifacts(metadata))
                                THEN "metadata_extracted" ELSE pc
    /\ UNCHANGED << db_type, duckdb_conn, metadata_extractor, metadata,
                    sort_order, table_s3_path, log_id, export_logs, uuid_count,
                    flush, exit_code >>

(* ------------------------------------------------------------------ *)
(* The export ledger: the export_logs table                            *)
(* ------------------------------------------------------------------ *)

InProgress == <<"in_progress">>
Success == <<"success">>
Failed == <<"failed">>

\* datetime.utcnow().strftime(...)
Now == <<"t">>

\* str(uuid.uuid4()) of the n-th call
Uuid(n) == <<ToString(n)>>

\* f"{self.s3_bucket_path}/{schema}/{table}/{table}.parquet"
TablePath(schema, table) ==
    s3_bucket_path \o <<"/">> \o schema \o <<"/">> \o table \o <<"/">> \o table
    \o <<".parquet">>

\* InsertLiterals with the table name where the full name belongs
InsertLiterals_NameForFullName(id, table_info, s3_path) ==
    LiteralList(<< id, EscapeQuotes(table_info.schema), EscapeQuotes(table_info.name),
                   EscapeQuotes(table_info.name), EscapeQuotes(s3_path),
                   InProgress, <<>>, Now >>)

\* the literals of the INSERT statement of _log_export_start
InsertLiterals(id, table_info, s3_path) ==
    LiteralList(<< id, EscapeQuotes(table_info.schema), EscapeQuotes(table_info.name),
                   EscapeQuotes(table_info.full_name), EscapeQuotes(s3_path),
                   InProgress, <<>>, Now >>)

\* the table after the engine ran the INSERT; ok is FALSE when the engine
\* cannot read the statement
ExecuteInsert(rows, statement) ==
    LET parsed == ParseLiterals(statement)
        v == parsed.values
    IN  IF parsed.ok /\ Len(v) = 8
        THEN [ok |-> TRUE,
              rows |-> Append(rows, [id |-> v[1], schema |-> v[2], table_name |-> v[3],
                                     full_name |-> v[4], s3_path |-> v[5], status |-> v[6],
                                     message |-> v[7], started_at |-> v[8],
                                     finished_at |-> <<>>])]
        ELSE [ok |-> FALSE, rows |-> rows]

\* UpdateLiterals with the message left at its default ''
UpdateLiterals_NoMessage(id, status, message) ==
    LiteralList(<< status, <<>>, Now, id >>)

\* the literals of the UPDATE statement of _log_export_end
UpdateLiterals(id, status, message) ==
    LiteralList(<< status, EscapeQuotes(message), Now, id >>)

\* ExecuteUpdate for a statement without its WHERE clause
ExecuteUpdate_NoWhere(rows, statement) ==
    LET parsed == ParseLiterals(statement)
        v == parsed.values
    IN  IF parsed.ok /\ Len(v) = 4
        THEN [ok |-> TRUE,
              rows |-> [i \in 1..Len(rows) |->
                          [rows[i] EXCEPT !.status = v[1], !.message = v[2],
                                          !.finished_at = v[3]]]]
        ELSE [ok |-> FALSE, rows |-> rows]

\* the table after the engine ran the UPDATE: every row of that id gets
\* the status, message and finished_at of the statement
ExecuteUpdate(rows, statement) ==
    LET parsed == ParseLiterals(statement)
        v == parsed.values
    IN  IF parsed.ok /\ Len(v) = 4
        THEN [ok |-> TRUE,
              rows |-> [i \in 1..Len(rows) |->
                          IF rows[i].id = v[4]
                          THEN [rows[i] EXCEPT !.status = v[1], !.message = v[2],
                                               !.finished_at = v[3]]
                          ELSE rows[i]]]
        ELSE [ok |-> FALSE, rows |-> rows]

\* f'Exported to {table_s3_path}'
ExportedTo(s3_path) == <<"Exported to ">> \o s3_path

(* ------------------------------------------------------------------ *)
(* export_all_tables and export_table_data                             *)
(* ------------------------------------------------------------------ *)

\* the table of the loop iteration in hand
CurrentTable == metadata.tables[idx]

\* export_all_tables without its try: the exception of a table reaches the
\* handler of run()
CatchTableError_Propagates == [pc |-> "finally", failure |-> "table_error"]

\* what export_all_tables does with an exception of export_table_data: it
\* prints it and the loop goes on; nothing reaches the handler of run()
CatchTableError == [pc |-> "export_all_tables", failure |-> "none"]

\* AfterTable with a retry of a table that raised
AfterTable_Retry(i, raised) == IF raised THEN i ELSE i + 1

\* the table the for loop of export_all_tables takes after table i,
\* whether export_table_data returned or raised
AfterTable(i, raised) == i + 1

\* CallsLogEnd with the call of the except clause forgotten
CallsLogEnd_OnlyOnSuccess(id, raised) == Truthy(id) /\ ~raised

\* `if log_id:` before _log_export_end, on the success path and in the
\* except clause
CallsLogEnd(id, raised) == Truthy(id)

\* the end of export_table_data for a table, after the call ev (the scan
\* resolution or the transfer statement) returned or raised:
\* _log_export_end is called when log_id is set (its own exception is
\* swallowed), then the function returns, or re-raises into the handler of
\* export_all_tables; the loop goes on with the next table
FinishTable(ev, status, message, raised) ==
    /\ IF CallsLogEnd(log_id, raised)
       THEN \E engine_ok \in BOOLEAN :
              LET done == ExecuteUpdate(export_logs, UpdateLiterals(log_id, status, message))
              IN  /\ export_logs' = IF engine_ok THEN done.rows ELSE export_logs
                  /\ trace' = trace \o << Event(ev, idx, ~raised, message),
                                          Event("log_end", idx, engine_ok /\ done.ok, log_id) >>
       ELSE /\ export_logs' = export_logs
            /\ trace' = Append(trace, Event(ev, idx, ~raised, message))
    /\ idx' = AfterTable(idx, raised)
    /\ pc' = IF raised THEN CatchTableError.pc ELSE "export_all_tables"
    /\ failure' = IF raised THEN CatchTableError.failure ELSE failure

\* Step 4: run() calls export_all_tables, which starts its loop at the
\* first table
export_all_tables ==
    /\ pc = "metadata_extracted"
    /\ pc' = "export_all_tables"
    /\ idx' = 1
    /\ UNCHANGED << db_type, duckdb_conn, metadata_extractor, metadata, save_idx,
                    last_save, sort_order, table_s3_path, log_id, export_logs,
                    uuid_count, flush, failure, exit_code, trace >>

\* LoopOver of a loop that stops after its first table
LoopOver_AfterFirstTable(i, tables) == i > Len(tables) \/ i > 1

\* `for idx, table in enumerate(metadata['tables'], 1)` has no table left
\* once idx is past the list
LoopOver(i, tables) == i > Len(tables)

\* export_table_data going from the sort order to the scan function, with
\* no ledger entry started
FirstInTry_ScanFunction == "resolve_scan"

\* the first statement of the try block of export_table_data, after the
\* sort order and the path: the call of _log_export_start
FirstInTry == "log_export_start"

\* SortOrderCall of a selector that orders only the first table it is asked
\* about
SortOrderCall_FirstCallOnly(table_info) ==
    IF uuid_count > 0 THEN <<>> ELSE get_table_sort_order(table_info)

\* sort_order = self.get_table_sort_order(table_info): the method reads its
\* argument and no field of the exporter
SortOrderCall(table_info) == get_table_sort_order(table_info)

\* export_table_data up to its try block: the sort order and the path
begin_table ==
    /\ pc = "export_all_tables"
    /\ ~LoopOver(idx, metadata.tables)
    /\ sort_order' = SortOrderCall(CurrentTable)
    /\ table_s3_path' = TablePath(CurrentTable.schema, CurrentTable.name)
    /\ log_id' = <<>>
    /\ trace' = Append(trace, Event("export_table_data", idx, TRUE, CurrentTable.full_name))
    /\ pc' = FirstInTry
    /\ UNCHANGED << db_type, duckdb_conn, metadata_extractor, metadata, save_idx,
                    last_save, idx, export_logs, uuid_count, flush, failure,
                    exit_code >>

\* AfterLogStartError of an export_table_data that gives the table up when
\* its ledger entry cannot be started
AfterLogStartError_GivesUp == "finally"

\* the except clause around _log_export_start prints a warning and
\* export_table_data goes on to the scan function
AfterLogStartError == "resolve_scan"

\* _log_export_start inside its own try: the row is inserted and its id
\* kept, or the engine raises and log_id stays None
log_export_start ==
    /\ pc = "log_export_start"
    /\ \E engine_ok \in BOOLEAN :
         LET id == Uuid(uuid_count + 1)
             done == ExecuteInsert(export_logs, InsertLiterals(id, CurrentTable, table_s3_path))
             ok == engine_ok /\ done.ok
         IN  /\ export_logs' = IF ok THEN done.rows ELSE export_logs
             /\ log_id' = IF ok THEN id ELSE <<>>
             /\ trace' = Append(trace, Event("log_start", idx, ok, id))
             /\ pc' = IF ok THEN "resolve_scan" ELSE AfterLogStartError
    /\ uuid_count' = uuid_count + 1
    /\ UNCHANGED << db_type, duckdb_conn, metadata_extractor, metadata, save_idx,
                    last_save, idx, sort_order, table_s3_path, flush, failure,
                    exit_code >>

\* the export_query of the table in hand
CurrentQuery ==
    ExportQuery(db_type, CurrentTable.schema, CurrentTable.name, sort_order, table_s3_path)

\* HasScanner with the else branch of export_table_data forgotten
HasScanner_Any(dbt) == TRUE

\* the if / elif chain of export_table_data: a scan function is built for
\* sqlserver and oracle (odbc_query) and for postgresql (postgres_scan)
HasScanner(dbt) == dbt \in {"sqlserver", "oracle"} \/ dbt = "postgresql"

\* str(e) of ValueError(f"Scanner not available for {self.db_type}")
ScannerError(dbt) == <<"Scanner not available for ", dbt>>

\* the scan function and the export query are built for a known database
\* type; for another, ValueError is raised and handled as a failure of the
\* table
resolve_scan ==
    /\ pc = "resolve_scan"
    /\ IF HasScanner(db_type)
       THEN /\ pc' = "execute"
            /\ trace' = Append(trace, Event("scan", idx, TRUE, CurrentQuery))
            /\ UNCHANGED << idx, export_logs, failure >>
       ELSE FinishTable("scan", Failed, ScannerError(db_type), TRUE)
    /\ UNCHANGED << db_type, duckdb_conn, metadata_extractor, metadata, save_idx,
                    last_save, sort_order, table_s3_path, log_id, uuid_count,
                    flush, exit_code >>

\* self.duckdb_conn.execute(export_query) and what follows it: the engine
\* runs a statement it can read, or raises
execute_transfer ==
    /\ pc = "execute"
    /\ \/ /\ StatementLiterals(CurrentQuery).ok
          /\ FinishTable("execute", Success, ExportedTo(table_s3_path), FALSE)
       \/ \E e \in ErrorTexts : FinishTable("execute", Failed, e, TRUE)
    /\ UNCHANGED << db_type, duckdb_conn, metadata_extractor, metadata, save_idx,
                    last_save, sort_order, table_s3_path, log_id, uuid_count,
                    flush, exit_code >>

\* the flush with its exception handlers lost: a failure of the local
\* fallback reaches the handler of run()
CatchFlushError_Propagates == [failure |-> "flush"]

\* what becomes of an exception of the local fallback of the flush: it is
\* printed, in _write_progress_to_s3 or in export_all_tables, and nothing
\* reaches the handler of run()
CatchFlushError == [failure |-> "none"]

\* _write_progress_to_s3 after the loop: the remote write, else the local
\* CSV, else nothing; no exception leaves export_all_tables
write_progress ==
    /\ pc = "export_all_tables"
    /\ LoopOver(idx, metadata.tables)
    /\ \E place \in {"remote", "local", "lost"} :
         /\ flush' = [place |-> place, rows |-> IF place = "lost" THEN <<>> ELSE export_logs]
         /\ trace' = Append(trace, Event("flush", 0, place # "lost", <<place>>))
         /\ failure' = IF place = "lost" THEN CatchFlushError.failure ELSE failure
    /\ pc' = "finally"
    /\ UNCHANGED << db_type, duckdb_conn, metadata_extractor, metadata, save_idx,
                    last_save, idx, sort_order, table_s3_path, log_id, export_logs,
                    uuid_count, exit_code >>

\* ExitStatus of a run that counts a failed table as a failure of the run
ExitStatus_CountsFailedTables(cause) ==
    IF cause = "none" /\ \A k \in 1..Len(trace) : trace[k].ev = "execute" => trace[k].ok
    THEN 0 ELSE 1

\* the status run() ends with: sys.exit(1) in the handler, else a return
ExitStatus(cause) == IF cause = "none" THEN 0 ELSE 1

\* `if self.metadata_extractor: self.metadata_extractor.close()`: close()
\* closes the connection if there is one (an extractor whose connect()
\* raised has none)
CloseExtractor(extractor) == IF extractor = "connected" THEN "closed" ELSE extractor

\* CloseEngine of a cleanup that is done at the end of the try block, not in
\* the finally clause
CloseEngine_OnlyAfterSuccess(conn) ==
    IF conn = "open" /\ failure = "none" THEN "closed" ELSE conn

\* `if self.duckdb_conn: self.duckdb_conn.close()`
CloseEngine(conn) == IF conn = "open" THEN "closed" ELSE conn

\* the finally clause of run(), then the exit of the process
finally ==
    /\ pc = "finally"
    /\ metadata_extractor' = CloseExtractor(metadata_extractor)
    /\ duckdb_conn' = CloseEngine(duckdb_conn)
    /\ exit_code' = <<ExitStatus(failure)>>
    /\ pc' = "exited"
    /\ UNCHANGED << db_type, metadata, save_idx, last_save, idx, sort_order,
                    table_s3_path, log_id, export_logs, uuid_count, flush,
                    failure, trace >>

Next ==
    \/ initialize_duckdb
    \/ connect_to_source
    \/ extract_complete_metadata
    \/ save_artifact
    \/ export_all_tables
    \/ begin_table
    \/ log_export_start
    \/ resolve_scan
    \/ execute_transfer
    \/ write_progress
    \/ finally

Spec == Init /\ [][Next]_vars

\* run() is one thread that takes its next step as long as it has one:
\* every call it makes returns or raises, so the run keeps stepping until it
\* is in its finally clause, and the finally clause runs
Running == []<>(pc \in {"finally", "exited"}) \/ []<><<Next>>_vars

FairSpec == Spec /\ Running /\ WF_vars(finally)


(* ------------------------------------------------------------------ *)
(* get_table_sort_order on arbitrary descriptors                       *)
(* ------------------------------------------------------------------ *)

\* the state in which extract_metadata has returned md and every artifact
\* went to the remote store: export_all_tables is about to start
AfterExtract(dbt, md) ==
    /\ db_type = dbt
    /\ pc = "export_all_tables"
    /\ duckdb_conn = "open"
    /\ metadata_extractor = "connected"
    /\ metadata = md
    /\ save_idx = Len(Artifacts(md)) + 1
    /\ last_save = Saved(Artifacts(md)[Len(Artifacts(md))], "remote")
    /\ idx = 1
    /\ sort_order = <<>>
    /\ table_s3_path = <<>>
    /\ log_id = <<>>
    /\ export_logs = <<>>
    /\ uuid_count = 0
    /\ flush = [place |-> "none", rows |-> <<>>]
    /\ failure = "none"
    /\ exit_code = <<>>
    /\ trace = [i \in 1..Len(Artifacts(md)) |->
                  Event("save", i, TRUE, <<Artifacts(md)[i].kind>>)]

\* a run whose metadata holds one table, any descriptor of TableDescriptors
SortInit ==
    \E dbt \in SupportedDbTypes, td \in TableDescriptors :
        AfterExtract(dbt, [tables |-> <<td>>, views |-> <<>>, routines |-> <<>>])

\* export_table_data takes the table and computes its sort order
SortNext == begin_table

SortSpec == SortInit /\ [][SortNext]_vars

(* ------------------------------------------------------------------ *)
(* The transfer statement of arbitrary descriptors                     *)
(* ------------------------------------------------------------------ *)

\* export_table_data up to the statement it hands to the engine
QueryNext == begin_table \/ log_export_start \/ resolve_scan

QuerySpec == SortInit /\ [][QueryNext]_vars

(* ------------------------------------------------------------------ *)
(* get_table_sort_order called again on an equal descriptor            *)
(* ------------------------------------------------------------------ *)

\* the descriptors with at most one index
RepeatDescriptors == { td \in TableDescriptors : Len(td.indexes) <= 1 }

\* export_all_tables on a list that holds a descriptor and an equal one
RepeatInit ==
    \E dbt \in SupportedDbTypes, td \in RepeatDescriptors :
        AfterExtract(dbt, [tables |-> <<td, td>>, views |-> <<>>, routines |-> <<>>])

\* the loop of export_all_tables: between the two calls of
\* get_table_sort_order the exporter writes its ledger and runs a transfer
RepeatNext == begin_table \/ log_export_start \/ resolve_scan \/ execute_transfer

RepeatSpec == RepeatInit /\ [][RepeatNext]_vars

(* ------------------------------------------------------------------ *)
(* export_all_tables called on its own                                 *)
(* ------------------------------------------------------------------ *)

\* export_all_tables(md) called by a program that made the exporter and
\* called initialize_duckdb() itself, with no connect_to_source before it:
\* the methods are public and none checks the database type before the
\* else branch of export_table_data
Called(dbt, md) ==
    /\ db_type = dbt
    /\ pc = "export_all_tables"
    /\ duckdb_conn = "open"
    /\ metadata_extractor = "None"
    /\ metadata = md
    /\ save_idx = 0
    /\ last_save = NothingSaved
    /\ idx = 1
    /\ sort_order = <<>>
    /\ table_s3_path = <<>>
    /\ log_id = <<>>
    /\ export_logs = <<>>
    /\ uuid_count = 0
    /\ flush = [place |-> "none", rows |-> <<>>]
    /\ failure = "none"
    /\ exit_code = <<>>
    /\ trace = <<>>

\* a new exporter that run() is called on, or one whose export_all_tables
\* is called directly
ScanInit ==
    \/ Init
    \/ \E dbt \in DbTypes, tl \in TableLists :
         Called(dbt, [tables |-> tl, views |-> <<>>, routines |-> <<>>])

ScanSpec == ScanInit /\ [][Next]_vars


(* ------------------------------------------------------------------ *)
(* Runs over tables with unusual names                                 *)
(* ------------------------------------------------------------------ *)

\* a table of one column with neither key nor index
PlainTable(schema, name) ==
    [schema |-> schema, name |-> name, full_name |-> schema \o <<".">> \o name,
     columns |-> <<[name |-> <<"a">>]>>, primary_key |-> <<>>, indexes |-> <<>>]

\* tables whose quoted identifiers hold a slash, a quote or a scheme
NameCatalogue ==
    << PlainTable(<<"s">>, <<"x", "/", "x">>),
       PlainTable(<<"s", "/", "x", "/", "x">>, <<"x">>),
       PlainTable(<<"s">>, <<"o", SQ, "b">>),
       PlainTable(<<"s">>, <<"s3://", "t">>) >>

NameTableLists ==
    { [i \in 1..Len(ix) |-> NameCatalogue[ix[i]]] :
        ix \in { s \in SeqsUpTo(1..Len(NameCatalogue), MaxTables) :
                   \A i, j \in 1..Len(s) : i # j => s[i] # s[j] } }

\* the state in which extract_complete_metadata() has returned md
Extracted(dbt, md) ==
    /\ db_type = dbt
    /\ pc = "save_artifacts"
    /\ duckdb_conn = "open"
    /\ metadata_extractor = "connected"
    /\ metadata = md
    /\ save_idx = 1
    /\ last_save = NothingSaved
    /\ idx = 0
    /\ sort_order = <<>>
    /\ table_s3_path = <<>>
    /\ log_id = <<>>
    /\ export_logs = <<>>
    /\ uuid_count = 0
    /\ flush = [place |-> "none", rows |-> <<>>]
    /\ failure = "none"
    /\ exit_code = <<>>
    /\ trace = <<>>

NameInit ==
    \E dbt \in SupportedDbTypes, tl \in NameTableLists :
        Extracted(dbt, [tables |-> tl, views |-> <<>>, routines |-> <<>>])

\* run() from the saves of extract_metadata on
NameNext ==
    \/ save_artifact
    \/ export_all_tables
    \/ begin_table
    \/ log_export_start
    \/ resolve_scan
    \/ execute_transfer
    \/ write_progress
    \/ finally

NameSpec == NameInit /\ [][NameNext]_vars


(* ------------------------------------------------------------------ *)
(* Properties                                                          *)
(* ------------------------------------------------------------------ *)

\* the calls of one kind made so far, in order
EventsOf(ev) == SelectSeq(trace, LAMBDA x : x.ev = ev)

\* export_all_tables has left its loop and flushed the ledger
LoopFinished == flush.place # "none"

\* run() has entered export_all_tables
ExportStarted == idx >= 1

TerminalStatuses == {Success, Failed}

\* C1: in export_all_tables each table of the list is attempted exactly
\* once, in list order, with no retry, and its transfer statement is
\* executed exactly once, whichever tables raised: the k-th call of
\* export_table_data and the k-th transfer are those of table k, and a
\* run that entered the loop ends with as many of each as tables.
C1_EachTableAttemptedOnceInOrder ==
    LET calls == EventsOf("export_table_data")
        execs == EventsOf("execute")
    IN  /\ \A k \in 1..Len(calls) :
             calls[k].table = k /\ calls[k].arg = metadata.tables[k].full_name
        /\ \A k \in 1..Len(execs) : execs[k].table = k
        /\ Len(execs) <= Len(calls)
        /\ Len(calls) <= Len(metadata.tables)
        /\ (ExportStarted /\ pc \in {"finally", "exited"}) =>
             /\ Len(calls) = Len(metadata.tables)
             /\ Len(execs) = Len(metadata.tables)

\* a finished run of two tables or more whose first transfer raised and
\* whose second table was attempted all the same
C1_Witness ==
    LET execs == EventsOf("execute")
    IN  /\ pc = "exited"
        /\ Len(metadata.tables) >= 2
        /\ Len(execs) >= 2
        /\ ~execs[1].ok

\* C2: a run in which connect_to_source and extract_metadata returned
\* (the source connection and the metadata extraction succeeded) exits
\* with status 0, whatever the transfers of its tables did.
C2_TableOutcomesNeverFailTheRun ==
    (pc = "exited" /\ ExportStarted) => exit_code = <<0>>

\* a run of two tables or more, every transfer of which raised, that
\* exited with status 0
C2_Witness ==
    LET execs == EventsOf("execute")
    IN  /\ pc = "exited"
        /\ exit_code = <<0>>
        /\ Len(metadata.tables) >= 2
        /\ Len(execs) = Len(metadata.tables)
        /\ \A k \in 1..Len(execs) : ~execs[k].ok

\* C3 as stated: a run exits nonzero only when the adapter's connect() or
\* extract_complete_metadata() raised.
C3_Original ==
    exit_code = <<1>> => failure \in {"connect", "extract_complete_metadata"}

\* C3, amended: a run exits nonzero only when an exception left
\* initialize_duckdb, connect_to_source (an unsupported database type, or
\* connect() raising) or extract_metadata (extract_complete_metadata()
\* raising, an artifact with no content, or an artifact whose remote and
\* local writes both failed); then no table was attempted and the ledger
\* was not flushed.
C3_NonzeroOnlyBeforeExport ==
    exit_code = <<1>> =>
        /\ failure \in {"initialize_duckdb", "unsupported_db_type", "connect",
                        "extract_complete_metadata", "artifact_content",
                        "local_fallback"}
        /\ ~ExportStarted
        /\ Len(EventsOf("export_table_data")) = 0
        /\ ~LoopFinished
        /\ (failure = "unsupported_db_type" => db_type \notin SupportedDbTypes)
        /\ (failure \in {"initialize_duckdb", "unsupported_db_type"} => metadata_extractor = "None")
        /\ (failure \in {"artifact_content", "local_fallback"} =>
              last_save.place \in {"content_error", "local_error"})

\* a run that exited nonzero though neither connect() nor
\* extract_complete_metadata() raised
C3_Witness ==
    /\ pc = "exited"
    /\ exit_code = <<1>>
    /\ failure \in {"initialize_duckdb", "local_fallback"}

\* the rows of the ledger that carry the full_name of table k
RowsOfTable(k) ==
    { i \in 1..Len(export_logs) : export_logs[i].full_name = metadata.tables[k].full_name }

\* C4 as stated: every table whose transfer statement raised has a ledger
\* entry with status failed and the error text as message, and every
\* table whose transfer succeeded has one with status success.
C4_Original ==
    LET execs == EventsOf("execute")
    IN  \A k \in 1..Len(execs) :
          \E i \in RowsOfTable(execs[k].table) :
            IF execs[k].ok THEN export_logs[i].status = Success
            ELSE export_logs[i].status = Failed /\ export_logs[i].message = execs[k].arg

\* the _log_export_start call of table t succeeded
StartedOk(t) ==
    \E j \in 1..Len(trace) : trace[j].ev = "log_start" /\ trace[j].table = t /\ trace[j].ok

\* the _log_export_end call of table t succeeded
EndedOk(t) ==
    \E j \in 1..Len(trace) : trace[j].ev = "log_end" /\ trace[j].table = t /\ trace[j].ok

\* C4, amended: for every table whose _log_export_start and
\* _log_export_end calls both succeeded, the table's one ledger entry has
\* status failed and the error text as message when its transfer statement
\* raised, and status success when it succeeded; a table whose
\* _log_export_start failed has no entry, and one whose _log_export_end
\* failed keeps its entry in_progress.
C4_LedgerRecordsOutcome ==
    LET execs == EventsOf("execute")
    IN  \A k \in 1..Len(execs) :
          LET t == execs[k].table
              rows == RowsOfTable(t)
          IN  /\ (StartedOk(t) /\ EndedOk(t)) =>
                   /\ Cardinality(rows) = 1
                   /\ \A i \in rows :
                        IF execs[k].ok
                        THEN /\ export_logs[i].status = Success
                             /\ export_logs[i].message = ExportedTo(export_logs[i].s3_path)
                        ELSE /\ export_logs[i].status = Failed
                             /\ export_logs[i].message = execs[k].arg
              /\ ~StartedOk(t) => rows = {}
              /\ (StartedOk(t) /\ ~EndedOk(t)) =>
                   \A i \in rows : export_logs[i].status = InProgress

\* a table whose transfer raised an error text with a quote in it, and
\* whose entry holds status failed and that very text
C4_Witness ==
    \E k \in 1..Len(trace) :
      /\ trace[k].ev = "execute"
      /\ ~trace[k].ok
      /\ trace[k].arg = <<"i", SQ, "s">>
      /\ \E i \in RowsOfTable(trace[k].table) :
           export_logs[i].status = Failed /\ export_logs[i].message = <<"i", SQ, "s">>

\* C5 as stated: when the loop has finished and the ledger is flushed, no
\* entry has status in_progress.
C5_Original ==
    LoopFinished =>
        /\ \A i \in 1..Len(export_logs) : export_logs[i].status # InProgress
        /\ \A i \in 1..Len(flush.rows) : flush.rows[i].status # InProgress

\* C5, amended: when the loop has finished and the ledger is flushed, an
\* entry has status in_progress only if the _log_export_end call for it
\* raised (which export_table_data swallows); every entry whose
\* _log_export_end call succeeded is terminal.
C5_InProgressOnlyAfterFailedLogEnd ==
    LoopFinished =>
        /\ \A i \in 1..Len(export_logs) :
             export_logs[i].status = InProgress <=>
               \E j \in 1..Len(trace) :
                 /\ trace[j].ev = "log_end"
                 /\ trace[j].arg = export_logs[i].id
                 /\ ~trace[j].ok
        /\ flush.place # "lost" => flush.rows = export_logs

\* a flushed ledger of two entries or more, one of a failed transfer,
\* none of them in_progress
C5_Witness ==
    /\ LoopFinished
    /\ flush.place = "remote"
    /\ Len(flush.rows) >= 2
    /\ \A i \in 1..Len(flush.rows) : flush.rows[i].status # InProgress
    /\ \E i \in 1..Len(flush.rows) : flush.rows[i].status = Failed

\* what one step may do to the ledger
LedgerStep ==
    /\ Len(export_logs') >= Len(export_logs)
    /\ \A i \in 1..Len(export_logs) :
         /\ export_logs'[i].id = export_logs[i].id
         /\ export_logs'[i].full_name = export_logs[i].full_name
         /\ export_logs'[i].status # export_logs[i].status =>
              export_logs[i].status = InProgress /\ export_logs'[i].status \in TerminalStatuses
         /\ export_logs[i].status # InProgress => export_logs'[i] = export_logs[i]
    /\ \A i \in (Len(export_logs) + 1)..Len(export_logs') :
         export_logs'[i].status = InProgress
    /\ \A j, k \in 1..Len(trace') :
         (trace'[j].ev = "log_end" /\ trace'[k].ev = "log_end" /\ trace'[j].arg = trace'[k].arg)
           => j = k
    /\ \A j \in 1..Len(trace') :
         trace'[j].ev = "log_end" =>
           \E k \in 1..(j - 1) :
             trace'[k].ev = "log_start" /\ trace'[k].ok /\ trace'[k].arg = trace'[j].arg

\* C6: an entry's status changes only from in_progress to success or
\* failed, and at most once: a terminal entry never changes again, no
\* entry is deleted, a new entry starts in_progress, and _log_export_end
\* is called at most once for each id, an id _log_export_start returned.
C6_StatusChangesOnceToTerminal == [][LedgerStep]_vars

\* a ledger with a terminal entry of an earlier table and the entry of a
\* later table, finished too
C6_Witness ==
    /\ Len(export_logs) >= 2
    /\ export_logs[1].status = Failed
    /\ export_logs[2].status = Success
    /\ Len(EventsOf("log_end")) = 2

\* C7 as stated: after export_all_tables has processed the table list the
\* ledger holds exactly one entry per table, with that table's full_name
\* and a terminal status.
C7_Original ==
    LoopFinished =>
        /\ Len(export_logs) = Len(metadata.tables)
        /\ \A i \in 1..Len(export_logs) :
             /\ export_logs[i].full_name = metadata.tables[i].full_name
             /\ export_logs[i].status \in TerminalStatuses

\* the tables whose _log_export_start call succeeded, in list order
StartedTables ==
    LET starts == SelectSeq(EventsOf("log_start"), LAMBDA x : x.ok)
    IN  [i \in 1..Len(starts) |-> starts[i].table]

\* C7, amended: after export_all_tables has processed the table list the
\* ledger holds, in list order, exactly one entry for each table whose
\* _log_export_start call succeeded and none for the others; each entry
\* carries its table's schema, name, full_name and path, and its status is
\* terminal exactly when the table's _log_export_end call succeeded.  When
\* no ledger call failed, that is one terminal entry per table.
C7_OneEntryPerStartedTable ==
    LoopFinished =>
        /\ Len(EventsOf("log_start")) = Len(metadata.tables)
        /\ Len(export_logs) = Len(StartedTables)
        /\ \A i \in 1..Len(export_logs) :
             LET t == metadata.tables[StartedTables[i]]
             IN  /\ export_logs[i].full_name = t.full_name
                 /\ export_logs[i].schema = t.schema
                 /\ export_logs[i].table_name = t.name
                 /\ export_logs[i].s3_path = TablePath(t.schema, t.name)
                 /\ export_logs[i].status \in TerminalStatuses <=> EndedOk(StartedTables[i])
        /\ (\A j \in 1..Len(trace) : trace[j].ev \in {"log_start", "log_end"} => trace[j].ok)
             => /\ Len(export_logs) = Len(metadata.tables)
                /\ \A i \in 1..Len(export_logs) :
                     /\ export_logs[i].full_name = metadata.tables[i].full_name
                     /\ export_logs[i].status \in TerminalStatuses

\* the run of sales.orders and sales.legacy: two terminal entries with
\* those full names
C7_Witness ==
    /\ LoopFinished
    /\ metadata.tables = <<Catalogue[1], Catalogue[2]>>
    /\ Len(export_logs) = 2
    /\ export_logs[1].full_name = <<"s", ".", "o">>
    /\ export_logs[2].full_name = <<"s", ".", "l">>
    /\ \A i \in 1..2 : export_logs[i].status \in TerminalStatuses

RECURSIVE ScanIdentifier(_, _)
\* reads a quoted identifier after its opening double quote
ScanIdentifier(text, acc) ==
    IF Len(text) = 0 THEN [ok |-> FALSE, value |-> acc, rest |-> <<>>]
    ELSE IF Head(text) = DQ THEN [ok |-> TRUE, value |-> acc, rest |-> Tail(text)]
    ELSE ScanIdentifier(Tail(text), Append(acc, Head(text)))

RECURSIVE OrderByColumns(_)
\* the columns an ORDER BY list names, as a reader of the list takes them:
\* quoted identifiers separated by ", "; a list that is not of that form
\* names the one column "?"
OrderByColumns(text) ==
    IF Len(text) = 0 THEN <<>>
    ELSE IF Head(text) # DQ THEN << <<"?">> >>
    ELSE LET first == ScanIdentifier(Tail(text), <<>>)
         IN  IF ~first.ok THEN << <<"?">> >>
             ELSE IF Len(first.rest) = 0 THEN <<first.value>>
             ELSE IF Len(first.rest) >= 3 /\ SubSeq(first.rest, 1, 2) = <<",", " ">>
                  THEN <<first.value>> \o OrderByColumns(SubSeq(first.rest, 3, Len(first.rest)))
             ELSE << <<"?">> >>

\* export_table_data has computed the sort order of the table in hand
SortOrderResolved == pc = "log_export_start"

\* the position of the first index of the table in hand that is CLUSTERED
FirstClustered ==
    CHOOSE j \in 1..Len(CurrentTable.indexes) :
        /\ CurrentTable.indexes[j].type = "CLUSTERED"
        /\ \A k \in 1..(j - 1) : CurrentTable.indexes[k].type # "CLUSTERED"

\* the position of the first index of the table in hand that is unique
FirstUnique ==
    CHOOSE j \in 1..Len(CurrentTable.indexes) :
        /\ CurrentTable.indexes[j].is_unique
        /\ \A k \in 1..(j - 1) : ~CurrentTable.indexes[k].is_unique

HasClustered == \E j \in 1..Len(CurrentTable.indexes) : CurrentTable.indexes[j].type = "CLUSTERED"

HasUnique == \E j \in 1..Len(CurrentTable.indexes) : CurrentTable.indexes[j].is_unique

\* C8: for a table with a primary key, get_table_sort_order returns the
\* columns of the primary key, each quoted, in their given order, whatever
\* indexes and columns the table has.
C8_PrimaryKeyColumnsInOrder ==
    (SortOrderResolved /\ Truthy(CurrentTable.primary_key)) =>
        /\ OrderByColumns(sort_order) = CurrentTable.primary_key[1].columns
        /\ sort_order = QuotedColumnList(CurrentTable.primary_key[1].columns)

\* a table with a two-column primary key, a clustered index first in its
\* index list and a unique index, both on other columns
C8_Witness ==
    /\ SortOrderResolved
    /\ Truthy(CurrentTable.primary_key)
    /\ CurrentTable.primary_key[1].columns = << <<"b">>, <<"a">> >>
    /\ Len(CurrentTable.indexes) = 2
    /\ CurrentTable.indexes[1].type = "CLUSTERED"
    /\ CurrentTable.indexes[1].columns = << <<"c">> >>
    /\ CurrentTable.indexes[2].is_unique
    /\ CurrentTable.indexes[2].columns = << <<"a">> >>
    /\ OrderByColumns(sort_order) = << <<"b">>, <<"a">> >>

\* C9: for a table with no primary key and an index of type CLUSTERED,
\* get_table_sort_order returns the columns of the first CLUSTERED index
\* of the index list, also when a unique index stands before it.
C9_FirstClusteredIndexColumns ==
    (SortOrderResolved /\ ~Truthy(CurrentTable.primary_key) /\ HasClustered) =>
        /\ OrderByColumns(sort_order) = CurrentTable.indexes[FirstClustered].columns
        /\ sort_order = QuotedColumnList(CurrentTable.indexes[FirstClustered].columns)

\* a table with no primary key whose first index is unique and not
\* clustered and whose second index is clustered, on other columns
C9_Witness ==
    /\ SortOrderResolved
    /\ ~Truthy(CurrentTable.primary_key)
    /\ Len(CurrentTable.indexes) = 2
    /\ CurrentTable.indexes[1].is_unique
    /\ CurrentTable.indexes[1].type # "CLUSTERED"
    /\ CurrentTable.indexes[1].columns = << <<"a">> >>
    /\ CurrentTable.indexes[2].type = "CLUSTERED"
    /\ CurrentTable.indexes[2].columns = << <<"b">>, <<"a">> >>
    /\ OrderByColumns(sort_order) = << <<"b">>, <<"a">> >>

\* C10: for a table with no primary key and no CLUSTERED index but a
\* unique index, get_table_sort_order returns the columns of the first
\* unique index of the index list.
C10_FirstUniqueIndexColumns ==
    (SortOrderResolved /\ ~Truthy(CurrentTable.primary_key) /\ ~HasClustered /\ HasUnique) =>
        /\ OrderByColumns(sort_order) = CurrentTable.indexes[FirstUnique].columns
        /\ sort_order = QuotedColumnList(CurrentTable.indexes[FirstUnique].columns)

\* a table with columns, no primary key and no clustered index, whose
\* first index is not unique and whose second index is, on other columns
C10_Witness ==
    /\ SortOrderResolved
    /\ ~Truthy(CurrentTable.primary_key)
    /\ Len(CurrentTable.columns) > 0
    /\ Len(CurrentTable.indexes) = 2
    /\ \A j \in 1..2 : CurrentTable.indexes[j].type # "CLUSTERED"
    /\ ~CurrentTable.indexes[1].is_unique
    /\ CurrentTable.indexes[1].columns = << <<"c">> >>
    /\ CurrentTable.indexes[2].is_unique
    /\ CurrentTable.indexes[2].columns = << <<"b">>, <<"a">> >>
    /\ OrderByColumns(sort_order) = << <<"b">>, <<"a">> >>

\* C11: for a table with no primary key, no CLUSTERED index and no unique
\* index, and a column or more, get_table_sort_order returns the name of
\* the first column alone (in double quotes), whatever other indexes the
\* table has.
C11_FirstColumnAlone ==
    (/\ SortOrderResolved
     /\ ~Truthy(CurrentTable.primary_key)
     /\ ~HasClustered
     /\ ~HasUnique
     /\ Len(CurrentTable.columns) > 0) =>
        /\ OrderByColumns(sort_order) = << CurrentTable.columns[1].name >>
        /\ sort_order = QuoteCol(CurrentTable.columns[1].name)

\* a table of three columns with no primary key and two indexes, neither
\* clustered nor unique, on other columns than the first
C11_Witness ==
    /\ SortOrderResolved
    /\ ~Truthy(CurrentTable.primary_key)
    /\ Len(CurrentTable.columns) = 3
    /\ Len(CurrentTable.indexes) = 2
    /\ \A j \in 1..2 :
         /\ CurrentTable.indexes[j].type # "CLUSTERED"
         /\ ~CurrentTable.indexes[j].is_unique
         /\ CurrentTable.indexes[j].columns = << <<"b">>, <<"a">> >>
    /\ OrderByColumns(sort_order) = << <<"c">> >>

\* export_table_data has built the export query of the table in hand
QueryBuilt == pc = "execute"

\* the export query export_table_data built last
BuiltQuery == trace[Len(trace)].arg

\* the statement has an ORDER BY clause, in the COPY or in the query of the
\* ODBC source
HasOrderBy(text) == \E i \in 1..Len(text) : text[i] = " ORDER BY "

\* C12 as stated: for every descriptor with zero columns the sort order is
\* empty and the export query has no ORDER BY clause.
C12_Original ==
    (QueryBuilt /\ Len(CurrentTable.columns) = 0) =>
        /\ sort_order = <<>>
        /\ ~HasOrderBy(BuiltQuery)

\* C12, amended: for every descriptor with zero columns and no primary
\* key, no CLUSTERED index and no unique index the sort order is empty and
\* the export query has no ORDER BY clause; a descriptor with zero columns
\* and a primary key gets the columns of the key, and an ORDER BY clause.
C12_NoColumnsNoKeyNoOrderBy ==
    (QueryBuilt /\ Len(CurrentTable.columns) = 0) =>
        /\ (~Truthy(CurrentTable.primary_key) /\ ~HasClustered /\ ~HasUnique) =>
             /\ sort_order = <<>>
             /\ ~HasOrderBy(BuiltQuery)
        /\ Truthy(CurrentTable.primary_key) =>
             /\ sort_order = QuotedColumnList(CurrentTable.primary_key[1].columns)
             /\ HasOrderBy(BuiltQuery)
        /\ HasOrderBy(BuiltQuery) <=> sort_order # <<>>

\* a table with no column, no primary key and two indexes that are neither
\* clustered nor unique, whose export query is built with no ORDER BY
C12_Witness ==
    /\ QueryBuilt
    /\ Len(CurrentTable.columns) = 0
    /\ ~Truthy(CurrentTable.primary_key)
    /\ Len(CurrentTable.indexes) = 2
    /\ ~HasClustered
    /\ ~HasUnique
    /\ sort_order = <<>>
    /\ ~HasOrderBy(BuiltQuery)

\* C13 as stated: two distinct (schema, table) pairs never get the same
\* data path: the path of the table in hand is the path of no other table
\* of the list.
C13_Original ==
    pc = "log_export_start" =>
        \A k \in 1..Len(metadata.tables) :
            (metadata.tables[k].schema # CurrentTable.schema
               \/ metadata.tables[k].name # CurrentTable.name)
            => TablePath(metadata.tables[k].schema, metadata.tables[k].name) # table_s3_path

\* the destination path with its leading storage scheme, and nothing else,
\* replaced by the local directory
SchemePrefixReplaced(s3_path) ==
    IF Len(s3_path) > 0 /\ Head(s3_path) = "s3://"
    THEN <<"local_export/">> \o Tail(s3_path)
    ELSE s3_path

\* C14 as stated: when the remote write of an artifact failed and the
\* fallback wrote it, the file holds the content _save_to_s3 was given,
\* unchanged, at the destination path with its storage-scheme prefix
\* replaced by the local directory, for every destination path.
C14_Original ==
    last_save.place = "local" =>
        /\ last_save.content = last_save.given
        /\ last_save.path = SchemePrefixReplaced(last_save.s3_path)

\* the _save_to_s3 calls whose remote write and local fallback both failed
FallbackFailures ==
    { k \in 1..Len(trace) :
        /\ trace[k].ev = "save"
        /\ ~trace[k].ok
        /\ Truthy(Artifacts(metadata)[trace[k].table].content) }

\* C15 as stated: a run in which the local fallback of an artifact write
\* failed too is not aborted by it: every artifact is still attempted,
\* every table is still exported, and the run does not exit nonzero.
C15_Original ==
    (pc = "exited" /\ FallbackFailures # {}) =>
        /\ exit_code = <<0>>
        /\ Len(EventsOf("save")) = Len(Artifacts(metadata))
        /\ Len(EventsOf("export_table_data")) = Len(metadata.tables)

\* the remote write of the ledger failed: it went to the local CSV, or
\* that failed too and it went nowhere
FlushFailed == flush.place \in {"local", "lost"}

\* C16: a failure of the ledger flush, also of its local fallback, leaves
\* the terminal status of the run as it was: no exception reaches the
\* handler of run() and the run exits with status 0.
C16_FlushFailureNeverFailsTheRun ==
    FlushFailed =>
        /\ failure = "none"
        /\ pc \in {"finally", "exited"}
        /\ pc = "exited" => exit_code = <<0>>

\* a run that exported a table, lost its ledger (remote and local write
\* failed) and exited with status 0
C16_Witness ==
    /\ pc = "exited"
    /\ flush.place = "lost"
    /\ Len(export_logs) >= 1
    /\ exit_code = <<0>>

\* the state of the run: what run() has completed
RunState ==
    CASE pc \in {"initialize_duckdb", "connect_to_source"} -> "INIT"
      [] pc \in {"extract_metadata", "save_artifacts"} -> "CONNECTED"
      [] pc = "metadata_extracted" -> "METADATA_EXTRACTED"
      [] pc \in {"export_all_tables", "log_export_start", "resolve_scan", "execute"} -> "EXPORTING"
      [] OTHER -> IF failure = "none" THEN "DONE" ELSE "FAILED"

\* the changes of state of a run: the next state of the order, or FAILED
\* from one of the first three
RunStateSteps ==
    { <<"INIT", "CONNECTED">>, <<"CONNECTED", "METADATA_EXTRACTED">>,
      <<"METADATA_EXTRACTED", "EXPORTING">>, <<"EXPORTING", "DONE">>,
      <<"INIT", "FAILED">>, <<"CONNECTED", "FAILED">>, <<"METADATA_EXTRACTED", "FAILED">> }

C18_UnsupportedEngineNoTransfer ==
    db_type \notin SupportedDbTypes =>
        /\ pc # "execute"
        /\ EventsOf("execute") = <<>>
        /\ \A k \in 1..Len(trace) :
             trace[k].ev = "scan" =>
                ~trace[k].ok /\ trace[k].arg = ScannerError(db_type)
        /\ ExportStarted =>
             \A t \in 1..(idx - 1) :
                \E k \in 1..Len(trace) :
                    trace[k] = Event("scan", t, FALSE, ScannerError(db_type))
        /\ pc \notin {"extract_metadata", "save_artifacts", "metadata_extracted"}
        /\ (pc = "exited" /\ ~ExportStarted) => exit_code = <<1>>

\* two tables were taken with a database type that has no scanner, both
\* failed at the scan function, and the loop is over
C18_Witness ==
    /\ db_type \notin SupportedDbTypes
    /\ pc = "exited"
    /\ Len(metadata.tables) = 2
    /\ Len(EventsOf("scan")) = 2
    /\ EventsOf("log_end") # <<>>


\* the values export_table_data puts into the literals of the export query,
\* in the order of the statement
ExportQueryValues(dbt, schema, table, sort, s3_path) ==
    (IF dbt = "postgresql"
     THEN << PgConn, schema, table >>
     ELSE << OdbcConn(dbt), TableQuery(dbt, schema, table, sort) >>)
    \o << s3_path, <<"parquet">>, <<"ZSTD">> >>

\* C19 as stated: every value put into a quoted literal of a statement
\* handed to the storage engine is escaped first, so each literal ends where
\* its value ends: the engine reads back, from the export query and from
\* the COPY statement of an artifact, exactly the values that were put in.
C19_Original ==
    /\ QueryBuilt =>
         StatementLiterals(BuiltQuery) =
            [ok |-> TRUE,
             values |-> ExportQueryValues(db_type, CurrentTable.schema, CurrentTable.name,
                                          sort_order, table_s3_path)]
    /\ (last_save.kind # "none" /\ Truthy(last_save.given)) =>
         StatementLiterals(SaveStatement(last_save.s3_path, last_save.given[1])) =
            [ok |-> TRUE,
             values |-> << last_save.given[1], last_save.s3_path, <<"csv">> >>]


\* the remote write of the latest artifact failed
RemoteWriteFailed == last_save.place \in {"local", "local_error"}

\* C20 as stated: a failure of the remote write of an artifact degrades to
\* the local fallback and does not abort extract_metadata: no exception
\* reaches run(), and once extract_metadata is left every artifact has been
\* attempted, in the order JSON, table DDLs, views, routines.
C20_Original ==
    RemoteWriteFailed =>
        /\ failure = "none"
        /\ pc # "save_artifacts" =>
             /\ Len(EventsOf("save")) = Len(Artifacts(metadata))
             /\ \A i \in 1..Len(EventsOf("save")) :
                  /\ EventsOf("save")[i].table = i
                  /\ EventsOf("save")[i].arg = <<Artifacts(metadata)[i].kind>>


\* the positions of the ORDER BY clauses of a statement
OrderByPositions(text) == { i \in 1..Len(text) : text[i] = " ORDER BY " }

\* position i of the statement is inside a string literal: an odd number of
\* quotes precedes it
InsideLiteral(text, i) ==
    Cardinality({ j \in 1..(i - 1) : text[j] = SQ }) % 2 = 1

\* the sort order follows the ORDER BY at position i
SortOrderAt(text, i, sort) ==
    /\ i + Len(sort) <= Len(text)
    /\ SubSeq(text, i + 1, i + Len(sort)) = sort

\* C21: the export query carries the sort order exactly once when it is not
\* empty and no ORDER BY when it is empty; for SQL Server and Oracle the
\* ORDER BY is inside the query literal of odbc_query, at the end of the
\* table query, and not around the scan; for PostgreSQL it follows the
\* closing parenthesis of postgres_scan and is in no literal.
C21_SortOrderOnceAtTheRightLayer ==
    QueryBuilt =>
        LET text == BuiltQuery
            at == OrderByPositions(text)
        IN  IF sort_order = <<>>
            THEN at = {}
            ELSE /\ Cardinality(at) = 1
                 /\ \A i \in at :
                      /\ SortOrderAt(text, i, sort_order)
                      /\ IF db_type \in {"sqlserver", "oracle"}
                         THEN /\ InsideLiteral(text, i)
                              /\ StatementLiterals(text).values[2] =
                                   TableQuery(db_type, CurrentTable.schema,
                                              CurrentTable.name, <<>>)
                                   \o OrderBy(sort_order)
                              /\ text[i + Len(sort_order) + 1] = SQ
                         ELSE /\ ~InsideLiteral(text, i)
                              /\ text[i - 1] = ")"
                              /\ text[i + Len(sort_order) + 1] = ") TO "

\* the export query of a PostgreSQL table with a sort order of two columns,
\* and so with its ORDER BY around the scan
C21_Witness ==
    /\ QueryBuilt
    /\ db_type = "postgresql"
    /\ Len(OrderByColumns(sort_order)) = 2
    /\ OrderByPositions(BuiltQuery) # {}


\* the query the ODBC source runs: what the engine reads in the query
\* literal of odbc_query
OdbcQueryText == StatementLiterals(BuiltQuery).values[2]

\* the quotes around the schema name in the FROM clause of that query
FromQuotes ==
    [open |-> OdbcQueryText[2],
     close |-> OdbcQueryText[2 + Len(CurrentTable.schema) + 1]]

\* the column list after the ORDER BY of that query
OrderByList ==
    LET q == OdbcQueryText
        p == CHOOSE i \in 1..Len(q) : q[i] = " ORDER BY "
    IN  SubSeq(q, p + 1, Len(q))

\* C22 as stated: for SQL Server and Oracle, when the sort order is not
\* empty, the ORDER BY of the generated query quotes each column the way
\* the FROM clause of the same query quotes the schema and table names.
C22_Original ==
    (QueryBuilt /\ db_type \in {"sqlserver", "oracle"} /\ sort_order # <<>>) =>
        LET cols == OrderByColumns(sort_order)
        IN  OrderByList =
              JoinText([i \in 1..Len(cols) |->
                          <<FromQuotes.open>> \o cols[i] \o <<FromQuotes.close>>],
                       <<",", " ">>)


\* the steps of export_table_data the trace records, and the place of each
\* in the order of the code
StepRank(ev) ==
    CASE ev = "export_table_data" -> 1
      [] ev = "log_start" -> 2
      [] ev = "scan" -> 3
      [] ev = "execute" -> 4
      [] ev = "log_end" -> 5
      [] OTHER -> 0

\* the positions of the trace that are steps of a table
TableSteps == { k \in 1..Len(trace) : StepRank(trace[k].ev) > 0 }

\* step ev of table t happened before position k
StepBefore(ev, t, k) ==
    \E j \in 1..(k - 1) : trace[j].ev = ev /\ trace[j].table = t

FlushCalls == { k \in 1..Len(trace) : trace[k].ev = "flush" }

\* C24: in every run that reaches the per-table loop _write_progress_to_s3
\* is called exactly once, after every step of every table of the list (the
\* finish of the last table's entry included), and it writes the ledger as
\* it then stands; no ledger entry is created or changed after the flush;
\* in a run that fails before the loop the ledger is never flushed.
C24_FlushedOnceAfterTheLoop ==
    /\ [](/\ Cardinality(FlushCalls) <= 1
          /\ (pc \in {"finally", "exited"} /\ ExportStarted) => Cardinality(FlushCalls) = 1
          /\ ~ExportStarted => (FlushCalls = {} /\ flush.place = "none")
          /\ FlushCalls = {} <=> flush.place = "none"
          /\ \A k \in FlushCalls :
               /\ k = Len(trace)
               /\ Len(EventsOf("export_table_data")) = Len(metadata.tables)
               /\ \A t \in 1..Len(metadata.tables) :
                    \E j \in 1..(k - 1) :
                       trace[j].table = t /\ trace[j].ev \in {"scan", "execute"}
               /\ flush.place \in {"remote", "local"} => flush.rows = export_logs)
    /\ [][flush.place # "none" => export_logs' = export_logs]_vars

\* a run of two tables that has flushed its two-entry ledger and exited
C24_Witness ==
    /\ pc = "exited"
    /\ Len(metadata.tables) = 2
    /\ Len(export_logs) = 2
    /\ flush.place = "remote"
    /\ flush.rows = export_logs
    /\ trace[Len(trace)].ev = "flush"


\* export_table_data takes the step in which it calls get_table_sort_order
SortOrderStep == pc = "export_all_tables" /\ pc' = FirstInTry

ColumnNames(table_info) ==
    { table_info.columns[i].name : i \in 1..Len(table_info.columns) }

\* the column an index entry is about: the SQL Server adapter appends
\* ' ASC' or ' DESC' to the name
EntryColumn(entry) ==
    IF Len(entry) > 2 /\ entry[Len(entry) - 1] = " " /\ entry[Len(entry)] \in {"ASC", "DESC"}
    THEN SubSeq(entry, 1, Len(entry) - 2)
    ELSE entry

\* a descriptor a catalog adapter can produce: the columns of its key and of
\* its indexes are columns of the table (the adapters join the key and
\* index columns to the table's columns)
AdapterProducible(table_info) ==
    /\ \A p \in 1..Len(table_info.primary_key) :
          \A i \in 1..Len(table_info.primary_key[p].columns) :
              table_info.primary_key[p].columns[i] \in ColumnNames(table_info)
    /\ \A x \in 1..Len(table_info.indexes) :
          \A i \in 1..Len(table_info.indexes[x].columns) :
              EntryColumn(table_info.indexes[x].columns[i]) \in ColumnNames(table_info)

\* C26 as stated: for every descriptor a catalog adapter can produce, each
\* identifier of the sort order is the name of a column of the table, index
\* entries as the SQL Server adapter emits them included.
C26_Original ==
    (SortOrderResolved /\ AdapterProducible(CurrentTable)) =>
        \A i \in 1..Len(OrderByColumns(sort_order)) :
            OrderByColumns(sort_order)[i] \in ColumnNames(CurrentTable)


\* C27 as stated: the sort order is empty only for a table with no column
\* recorded: every table with at least one column gets a non-empty sort
\* order and an ORDER BY in its export query, also when the first index that
\* matches has an empty column list.
C27_Original ==
    (QueryBuilt /\ Len(CurrentTable.columns) > 0) =>
        /\ sort_order # <<>>
        /\ HasOrderBy(BuiltQuery)


\* table t is behind the loop: a later table is in hand, or none is left
TableDone(t) == ExportStarted /\ (idx > t \/ pc \in {"finally", "exited"})

\* C28: a failure of the ledger bookkeeping never changes the transfer of a
\* table.  If _log_export_start failed for a table, export_table_data goes
\* on to the scan function and the transfer statement of that table is
\* executed all the same; if _log_export_end failed after a successful
\* transfer, export_table_data returns normally (the transfer stays a
\* success, nothing reaches the handler of run()) and the next table of the
\* list is processed.
C28_LedgerFailureLeavesTransferAlone ==
    \A k \in 1..Len(trace) :
        /\ (trace[k].ev = "log_start" /\ ~trace[k].ok) =>
              LET t == trace[k].table
              IN  /\ failure = "none"
                  /\ \/ idx = t /\ pc \in {"resolve_scan", "execute"}
                     \/ /\ TableDone(t)
                        /\ \E j \in (k + 1)..Len(trace) :
                              trace[j].ev = "execute" /\ trace[j].table = t
        /\ (trace[k].ev = "log_end" /\ ~trace[k].ok /\ trace[k - 1].ev = "execute" /\ trace[k - 1].ok) =>
              LET t == trace[k].table
              IN  /\ failure = "none"
                  /\ TableDone(t)
                  /\ pc = "exited" => exit_code = <<0>>
                  /\ (t < Len(metadata.tables) /\ (idx > t + 1 \/ pc \in {"finally", "exited"})) =>
                        \E j \in (k + 1)..Len(trace) :
                           trace[j].ev = "execute" /\ trace[j].table = t + 1

\* a finished run of two tables: the ledger entry of the first could not be
\* started and its transfer succeeded all the same, the entry of the second
\* could not be finished after its successful transfer
C28_Witness ==
    /\ pc = "exited"
    /\ Len(metadata.tables) = 2
    /\ \E k \in 1..Len(trace) :
          trace[k].ev = "log_start" /\ trace[k].table = 1 /\ ~trace[k].ok
    /\ \E k \in 2..Len(trace) :
          /\ trace[k].ev = "log_end" /\ trace[k].table = 2 /\ ~trace[k].ok
          /\ trace[k - 1].ev = "execute" /\ trace[k - 1].ok
    /\ \A k \in 1..Len(trace) : trace[k].ev = "execute" => trace[k].ok


InProgressRows == { i \in 1..Len(export_logs) : export_logs[i].status = InProgress }

\* the _log_export_end call for the entry with that id was made, and it
\* succeeded or raised as said
FinishAttempted(id, ok) ==
    \E j \in 1..Len(trace) :
        trace[j].ev = "log_end" /\ trace[j].arg = id /\ trace[j].ok = ok

\* C30 as stated: at every point of a run at most one ledger entry has
\* status in_progress.
C30_Original == Cardinality(InProgressRows) <= 1

\* C30, amended: at every point of a run, every ledger entry with status
\* in_progress is either the entry of the one table in hand, whose transfer
\* is not over, or an entry whose _log_export_end call raised (which
\* export_table_data swallows, leaving the entry in_progress for good): at
\* most one entry is in_progress without a failed finish, a table's entry
\* is started only after the finish of every earlier started entry was
\* attempted, and the transfers are executed one table after the other.
C30_OneTableInHand ==
    /\ \A i \in InProgressRows :
          \/ /\ log_id = export_logs[i].id
             /\ pc \in {"resolve_scan", "execute"}
             /\ export_logs[i].full_name = CurrentTable.full_name
             /\ ~FinishAttempted(export_logs[i].id, TRUE)
             /\ ~FinishAttempted(export_logs[i].id, FALSE)
          \/ FinishAttempted(export_logs[i].id, FALSE)
    /\ Cardinality({ i \in InProgressRows : ~FinishAttempted(export_logs[i].id, FALSE) }) <= 1
    /\ \A k \in 1..Len(trace) :
          trace[k].ev = "log_start" =>
             \A j \in 1..(k - 1) :
                /\ trace[j].table < trace[k].table \/ StepRank(trace[j].ev) = 0
                                                   \/ trace[j].ev = "export_table_data"
                /\ (trace[j].ev = "log_start" /\ trace[j].ok) =>
                      \E e \in (j + 1)..(k - 1) :
                         trace[e].ev = "log_end" /\ trace[e].arg = trace[j].arg
    /\ \A j, k \in 1..Len(trace) :
          (j < k /\ trace[j].ev = "execute" /\ trace[k].ev = "execute") =>
             trace[j].table < trace[k].table

\* the second table in hand, its entry in_progress, while the first
\* table's entry is in_progress too because its finish raised
C30_Witness ==
    /\ pc = "execute"
    /\ idx = 2
    /\ Cardinality(InProgressRows) = 2
    /\ FinishAttempted(export_logs[1].id, FALSE)
    /\ log_id = export_logs[2].id

====
